---- MODULE Spec2Model ----
(***************************************************************************)
(* Model of the shader build pipeline (src/src/shader.rs) and the uniform  *)
(* upload of the raytracing data structures (src/src/raytracing.rs).       *)
(*                                                                         *)
(* The OpenGL context is the record gl: the currently bound program, the   *)
(* program objects and the shader objects.  Every Rust function is an      *)
(* operator over a call context c = [g |-> GL state, t |-> GL call trace]; *)
(* every GL entry point the code calls is an operator that returns the     *)
(* context after the call, with the call appended to the trace together    *)
(* with the program that was bound when it was issued.                     *)
(*                                                                         *)
(* Text is a sequence of one-character strings (paths), of bytes (driver   *)
(* logs) or of tokens (uniform names).                                     *)
(***************************************************************************)
EXTENDS Integers, Sequences, FiniteSets, TLC

----------------------------------------------------------------------------
(* Bounds of the model *)

MaxBuilders == 2
MaxStages == 2
MaxCalls == 2
MaxOps == 8
ShortLogLen == 3
LongLogLen == 514

(* Program constants *)

LogCapacity == 512

\* A 32-bit value is the pair <<high half, low half>> of its 16-bit halves;
\* a GLint (i32) is the integer itself.
Half == 65536
SignHalf == 32768
Zero32 == <<0, 0>>
Max32 == <<Half - 1, Half - 1>>

----------------------------------------------------------------------------
(* Generic helpers *)

Min(S) == CHOOSE x \in S : \A y \in S : x <= y

Range(s) == {s[i] : i \in 1..Len(s)}

Fill(n, x) == [i \in 1..n |-> x]

\* s occurs in t as a contiguous run
Contains(t, s) ==
  \E i \in 0..(Len(t) - Len(s)) : \A j \in 1..Len(s) : t[i + j] = s[j]

DropLast(s, n) == SubSeq(s, 1, Len(s) - n)

----------------------------------------------------------------------------
(* std::path::Path::extension on a path given as a sequence of characters. *)

None == <<"<none>">>

\* Trailing separators and trailing "." components are not components.
RECURSIVE TrimPath(_)
TrimPath(p) ==
  IF Len(p) >= 2 /\ p[Len(p)] = "/" THEN TrimPath(DropLast(p, 1))
  ELSE IF Len(p) >= 2 /\ p[Len(p)] = "." /\ p[Len(p) - 1] = "/"
       THEN TrimPath(DropLast(p, 1))
  ELSE p

\* Path::file_name: the last component, unless it is "..", "." or the root.
FileName(p) ==
  LET q == TrimPath(p)
      seps == {i \in 1..Len(q) : q[i] = "/"}
      start == IF seps = {} THEN 1
               ELSE (CHOOSE i \in seps : \A j \in seps : j <= i) + 1
      comp == SubSeq(q, start, Len(q))
  IN IF comp = <<>> \/ comp = <<".">> \/ comp = <<".", ".">> THEN None
     ELSE comp

\* Path::extension: the part of the file name after its last dot; none when
\* there is no file name, no dot, or the only dot is the first character.
Extension(p) ==
  LET f == FileName(p)
      dots == {i \in 1..Len(f) : f[i] = "."}
      last == CHOOSE i \in dots : \A j \in dots : j <= i
  IN IF f = None \/ dots = {} THEN None
     ELSE IF last = 1 THEN None
     ELSE SubSeq(f, last + 1, Len(f))

Vertex == "Vertex"
Fragment == "Fragment"
ShaderTypes == {Vertex, Fragment}

ExtVert == <<"v", "e", "r", "t">>
ExtFrag == <<"f", "r", "a", "g">>

\* a match whose last arm falls back to a fragment stage
from_ext_fallback(ext) ==
  IF ext = ExtVert THEN [ok |-> TRUE, ty |-> Vertex]
  ELSE [ok |-> TRUE, ty |-> Fragment]

\* ShaderType::from_ext
from_ext(ext) ==
  IF ext = ExtVert THEN [ok |-> TRUE, ty |-> Vertex]
  ELSE IF ext = ExtFrag THEN [ok |-> TRUE, ty |-> Fragment]
  ELSE [ok |-> FALSE, ty |-> "none"]

----------------------------------------------------------------------------
(* The environment: shader sources, the files that hold them, the driver.  *)

SrcVert == "vs_ok"
SrcFrag == "fs_ok"
SrcBadShort == "bad_short"
SrcBadLong == "bad_long"
SrcNul == "has_nul"
Sources == {SrcVert, SrcFrag, SrcBadShort, SrcBadLong, SrcNul}

\* the source text has an interior NUL byte
HasNul(src) == src = SrcNul

\* the compile status the driver reports for the source as a stage of type ty
DriverCompiles(src, ty) ==
  \/ src = SrcVert /\ ty = Vertex
  \/ src = SrcFrag /\ ty = Fragment

\* Bytes of the driver's info logs: ASCII letters.
ShortLog == Fill(ShortLogLen, 69)
LongLog == Fill(LongLogLen - 1, 76) \o <<69>>

\* the info log the driver keeps for a compiled source
DriverLog(src, ty) ==
  IF DriverCompiles(src, ty) THEN <<>>
  ELSE IF src = SrcBadLong THEN LongLog
  ELSE ShortLog

\* Uniform names are token sequences: format!("{uniform_name}.field")
Dotted(prefix, field) == prefix \o <<".", field>>

PfxSettings == <<"settings">>
PfxCamera == <<"camera">>
Prefixes == {PfxSettings, PfxCamera}

U(prefix, field, ty) == [name |-> Dotted(prefix, field), ty |-> ty]

\* the uniforms a source declares, in declaration order
DeclaredUniforms(src) ==
  IF src = SrcFrag THEN
    << U(PfxSettings, "maxBounces", "uint"),
       U(PfxSettings, "raysPerFrag", "uint"),
       U(PfxSettings, "divergeStrength", "float"),
       U(PfxCamera, "screenSize", "vec2"),
       U(PfxCamera, "fov", "float"),
       U(PfxCamera, "focusDistance", "float"),
       U(PfxCamera, "pos", "vec3"),
       U(PfxCamera, "localToWorld", "mat4"),
       U(PfxCamera, "maxBounces", "float"),
       U(PfxSettings, "fov", "vec2") >>
  ELSE IF src = SrcVert THEN
    << U(PfxCamera, "localToWorld", "mat4"),
       U(PfxCamera, "pos", "vec3") >>
  ELSE <<>>

\* Paths the caller may pass, character by character.
P_a_vert == <<"a", ".", "v", "e", "r", "t">>
P_a_frag == <<"a", ".", "f", "r", "a", "g">>
P_e_frag == <<"e", ".", "f", "r", "a", "g">>
P_l_vert == <<"l", ".", "v", "e", "r", "t">>
P_n_vert == <<"n", ".", "v", "e", "r", "t">>
P_m_frag == <<"m", ".", "f", "r", "a", "g">>
P_dir_vert == <<"a", ".", "v", "e", "r", "t", "/">>
P_sub_frag == <<"d", ".", "x", "/", "a", ".", "f", "r", "a", "g">>
P_a_txt == <<"a", ".", "t", "x", "t">>
P_a == <<"a">>
P_hidden == <<".", "v", "e", "r", "t">>
P_a_dot == <<"a", ".">>
P_a_Vert == <<"a", ".", "V", "e", "r", "t">>
P_two_ext == <<"a", ".", "v", "e", "r", "t", ".", "b", "a", "k">>
P_dir_only == <<"d", ".", "f", "r", "a", "g", "/", "a">>
P_dotdot == <<"a", ".", "f", "r", "a", "g", "/", ".", ".">>
P_vertx == <<"a", ".", "v", "e", "r", "t", "x">>

Paths ==
  { P_a_vert, P_a_frag, P_e_frag, P_l_vert, P_n_vert, P_m_frag, P_dir_vert,
    P_sub_frag, P_a_txt, P_a, P_hidden, P_a_dot, P_a_Vert, P_two_ext,
    P_dir_only, P_dotdot, P_vertx }

\* std::fs::read_to_string: the text of the file, or a failure
NoFile == "<read error>"
FileContent(path) ==
  IF path = P_a_vert THEN SrcVert
  ELSE IF path \in {P_a_frag, P_sub_frag, P_a_txt, P_a, P_hidden, P_a_dot,
                    P_a_Vert, P_two_ext, P_dir_only, P_vertx} THEN SrcFrag
  ELSE IF path = P_e_frag THEN SrcBadShort
  ELSE IF path = P_l_vert THEN SrcBadLong
  ELSE IF path = P_n_vert THEN SrcNul
  ELSE NoFile

----------------------------------------------------------------------------
(* OpenGL.  A call context is c = [g |-> context state, t |-> call trace]. *)
(* g = [current, programs, shaders]; programs and shaders are functions    *)
(* from the object names in use.                                           *)

Ev(call, a, b, g) == [call |-> call, a |-> a, b |-> b, bound |-> g.current]

Did(c, call, a, b, g2) == [g |-> g2, t |-> Append(c.t, Ev(call, a, b, c.g))]

UsedNames(g) == DOMAIN g.programs \cup DOMAIN g.shaders

NameIndex == 1..(MaxBuilders * (MaxStages + 2))
LowName(k) == <<0, k>>
HighName(k) == <<SignHalf, k>>

\* The names the driver may hand out next: programs and shaders share one
\* name space; a name is any unused non-zero 32-bit value.  The driver here
\* numbers shaders from 1 and programs from 1 or from 2^31+1.
FreshShaderNames(g) ==
  { LowName(Min({k \in NameIndex : LowName(k) \notin UsedNames(g)})) }
FreshProgramNames(g) ==
  FreshShaderNames(g) \cup
  { HighName(Min({k \in NameIndex : HighName(k) \notin UsedNames(g)})) }

\* The first uniform location the driver gives a program.
LocBase(pid) == IF pid[1] = 0 THEN 0 ELSE 20

ZeroOf(ty) ==
  IF ty = "vec2" THEN <<0, 0>>
  ELSE IF ty = "vec3" THEN <<0, 0, 0>>
  ELSE IF ty = "mat4" THEN Fill(16, 0)
  ELSE IF ty = "uint" THEN Zero32
  ELSE 0

\* glCreateProgram, returning name (object creation is taken to succeed:
\* the name is never 0)
CreateProgram(c, name) ==
  Did(c, "CreateProgram", name, 0,
      [c.g EXCEPT !.programs = name :>
         [linked |-> FALSE, attached |-> <<>>, log |-> <<>>, uniforms |-> <<>>]
         @@ @])

\* glCreateShader, returning name
CreateShader(c, ty, name) ==
  Did(c, "CreateShader", name, ty,
      [c.g EXCEPT !.shaders = name :>
         [ty |-> ty, src |-> "", compiled |-> FALSE, log |-> <<>>,
          deleteFlag |-> FALSE] @@ @])

\* glShaderSource
ShaderSource(c, shader, src) ==
  Did(c, "ShaderSource", shader, src,
      IF shader \in DOMAIN c.g.shaders
      THEN [c.g EXCEPT !.shaders[shader].src = src]
      ELSE c.g)

\* glCompileShader: the driver compiles the source and keeps its log
CompileShader(c, shader) ==
  Did(c, "CompileShader", shader, 0,
      IF shader \in DOMAIN c.g.shaders
      THEN [c.g EXCEPT
              !.shaders[shader].compiled =
                 DriverCompiles(c.g.shaders[shader].src, c.g.shaders[shader].ty),
              !.shaders[shader].log =
                 DriverLog(c.g.shaders[shader].src, c.g.shaders[shader].ty)]
      ELSE c.g)

\* glAttachShader: an error, and no effect, when already attached
AttachShader(c, pid, shader) ==
  Did(c, "AttachShader", pid, shader,
      IF /\ pid \in DOMAIN c.g.programs
         /\ shader \in DOMAIN c.g.shaders
         /\ shader \notin Range(c.g.programs[pid].attached)
      THEN [c.g EXCEPT !.programs[pid].attached = Append(@, shader)]
      ELSE c.g)

\* the active uniforms of a program: every declaration of its stages, once
RECURSIVE ActiveUniforms(_, _, _)
ActiveUniforms(g, stages, acc) ==
  IF stages = <<>> THEN acc
  ELSE LET decl == DeclaredUniforms(g.shaders[Head(stages)].src)
           new == SelectSeq(decl, LAMBDA u : \A i \in 1..Len(acc) : acc[i].name # u.name)
       IN ActiveUniforms(g, Tail(stages), acc \o new)

\* glLinkProgram.  driverOK and log are the driver's verdict on the stages
\* (for a program with no stage: failure in a core profile context, success
\* in a compatibility one); no driver links a stage that did not compile.
\* Uniform locations are base, base+1, ... and every uniform starts as zero.
LinkProgram(c, pid, driverOK, log) ==
  LET p == c.g.programs[pid]
      ok == /\ driverOK
            /\ \A i \in 1..Len(p.attached) : c.g.shaders[p.attached[i]].compiled
      act == ActiveUniforms(c.g, p.attached, <<>>)
      base == LocBase(pid)
      table == [i \in 1..Len(act) |->
                  [loc |-> base + i - 1, name |-> act[i].name, ty |-> act[i].ty,
                   val |-> ZeroOf(act[i].ty)]]
  IN Did(c, "LinkProgram", pid, 0,
         IF pid \in DOMAIN c.g.programs
         THEN [c.g EXCEPT !.programs[pid] =
                 [linked |-> ok, attached |-> p.attached,
                  log |-> IF ok THEN <<>> ELSE log,
                  uniforms |-> IF ok THEN table ELSE <<>>]]
         ELSE c.g)

\* glDeleteShader: an attached shader is only flagged for deletion
DeleteShader(c, shader) ==
  Did(c, "DeleteShader", shader, 0,
      IF shader \notin DOMAIN c.g.shaders THEN c.g
      ELSE IF \E p \in DOMAIN c.g.programs : shader \in Range(c.g.programs[p].attached)
      THEN [c.g EXCEPT !.shaders[shader].deleteFlag = TRUE]
      ELSE [c.g EXCEPT !.shaders = [s \in DOMAIN @ \ {shader} |-> @[s]]])

\* glUseProgram: 0 unbinds; a program that is not linked is an error
UseProgram(c, pid) ==
  Did(c, "UseProgram", pid, 0,
      IF pid = Zero32 THEN [c.g EXCEPT !.current = Zero32]
      ELSE IF pid \in DOMAIN c.g.programs /\ c.g.programs[pid].linked
      THEN [c.g EXCEPT !.current = pid]
      ELSE c.g)

\* glGetIntegerv(GL_CURRENT_PROGRAM): the name, stored into a GLint
ToGLint(u) ==
  IF u[1] >= SignHalf THEN (u[1] - Half) * Half + u[2] ELSE u[1] * Half + u[2]
\* a cast that keeps the sign of the high half
AsU32_signed(i) == <<i \div Half, i % Half>>

\* prev_pid as u32
AsU32(i) ==
  IF i < 0 THEN <<(i \div Half) + Half, i % Half>> ELSE <<i \div Half, i % Half>>

GetCurrentProgram(c) == Did(c, "GetIntegerv", 0, 0, c.g)
CurrentProgramValue(c) == ToGLint(c.g.current)

\* glGetUniformLocation: -1 when the program has no such active uniform
UniformLocationOf(g, pid, name) ==
  IF pid \in DOMAIN g.programs /\ \E i \in 1..Len(g.programs[pid].uniforms) :
                                      g.programs[pid].uniforms[i].name = name
  THEN LET i == CHOOSE i \in 1..Len(g.programs[pid].uniforms) :
                    g.programs[pid].uniforms[i].name = name
       IN g.programs[pid].uniforms[i].loc
  ELSE -1

GetUniformLocation(c, pid, name) == Did(c, "GetUniformLocation", pid, name, c.g)

\* glUniform*: writes the uniform at loc of the bound program; location -1
\* is ignored; no bound program, an unknown location or a uniform of
\* another type is an error and writes nothing.
UniformWrite(c, call, ty, loc, val) ==
  LET cur == c.g.current
      us == c.g.programs[cur].uniforms
      hit == {i \in 1..Len(us) : us[i].loc = loc /\ us[i].ty = ty}
  IN Did(c, call, loc, val,
         IF cur = Zero32 \/ loc = -1 \/ hit = {} THEN c.g
         ELSE [c.g EXCEPT !.programs[cur].uniforms =
                 [i \in 1..Len(us) |->
                    IF i \in hit THEN [us[i] EXCEPT !.val = val] ELSE us[i]]])

Uniform1ui(c, loc, v) == UniformWrite(c, "Uniform1ui", "uint", loc, v)
Uniform1f(c, loc, v) == UniformWrite(c, "Uniform1f", "float", loc, v)
Uniform2f(c, loc, x, y) == UniformWrite(c, "Uniform2f", "vec2", loc, <<x, y>>)
Uniform3f(c, loc, x, y, z) == UniformWrite(c, "Uniform3f", "vec3", loc, <<x, y, z>>)

\* glUniformMatrix4fv with count 1: m is the 16 floats in memory order
Transposed(m) == [i \in 1..16 |-> m[4 * ((i - 1) % 4) + ((i - 1) \div 4) + 1]]
UniformMatrix4fv(c, loc, transpose, m) ==
  UniformWrite(c, "UniformMatrix4fv", "mat4", loc,
               IF transpose THEN Transposed(m) ELSE m)

----------------------------------------------------------------------------
(* src/src/shader.rs *)

\* A panic and its message: a fixed head and the formatted argument.
NoPanic == [head |-> "", body |-> <<>>]
Panic(head, body) == [head |-> head, body |-> body]

\* String::from_utf8_lossy on the bytes that occur here: ASCII bytes stand
\* for themselves, 0xFF is never valid UTF-8 and becomes U+FFFD.
FromUtf8Lossy(bytes) ==
  [i \in 1..Len(bytes) |-> IF bytes[i] < 128 THEN bytes[i] ELSE 65533]

\* The contents of memory that was allocated and never written.
GarbageBytes == {0, 255}

\* Vec::with_capacity(512) followed by set_len(512-1)
UninitLog(garbage) == Fill(LogCapacity - 1, garbage)

\* glGetShaderInfoLog / glGetProgramInfoLog into buf: at most bufSize-1
\* characters of the log, then a terminating NUL; the rest is untouched.
\* buf holds the elements of the vector; the byte after them is spare
\* capacity.
InfoLogInto(buf, bufSize, log) ==
  LET n == IF Len(log) < bufSize - 1 THEN Len(log) ELSE bufSize - 1
      written == SubSeq(log, 1, n) \o <<0>>
  IN SubSeq(written \o SubSeq(buf, n + 2, Len(buf)), 1, Len(buf))

\* ShaderBuilder::get_shader_err
get_shader_err(c, shader_id, garbage) ==
  LET c1 == Did(c, "GetShaderiv", shader_id, 0, c.g)
      success == shader_id \in DOMAIN c.g.shaders /\ c.g.shaders[shader_id].compiled
      c2 == Did(c1, "GetShaderInfoLog", shader_id, LogCapacity, c1.g)
      log == InfoLogInto(UninitLog(garbage), LogCapacity,
                         IF shader_id \in DOMAIN c.g.shaders
                         THEN c.g.shaders[shader_id].log ELSE <<>>)
  IN IF success THEN [c |-> c1, ok |-> TRUE, err |-> <<>>]
     ELSE [c |-> c2, ok |-> FALSE, err |-> FromUtf8Lossy(log)]

\* a status query whose result is never looked at
get_linker_err_ignored(c, self, garbage) ==
  [c |-> Did(c, "GetProgramiv", self.pid, 0, c.g), ok |-> TRUE, err |-> <<>>]

\* ShaderBuilder::get_linker_err
get_linker_err(c, self, garbage) ==
  LET c1 == Did(c, "GetProgramiv", self.pid, 0, c.g)
      success == self.pid \in DOMAIN c.g.programs /\ c.g.programs[self.pid].linked
      c2 == Did(c1, "GetProgramInfoLog", self.pid, LogCapacity, c1.g)
      log == InfoLogInto(UninitLog(garbage), LogCapacity,
                         IF self.pid \in DOMAIN c.g.programs
                         THEN c.g.programs[self.pid].log ELSE <<>>)
  IN IF success THEN [c |-> c1, ok |-> TRUE, err |-> <<>>]
     ELSE [c |-> c2, ok |-> FALSE, err |-> FromUtf8Lossy(log)]

\* What a builder method hands back: the context, the builder it returns
\* (or the one it held when it panicked), the panic, the Shader of link().
Outcome(c, self, panic, pid) == [c |-> c, self |-> self, panic |-> panic, pid |-> pid]

\* ShaderBuilder::new
ShaderBuilder_new(c, name) ==
  Outcome(CreateProgram(c, name), [pid |-> name, shaders |-> <<>>], NoPanic, Zero32)

\* a compile that adds the stage before it looks at the compile status
compile_pushFirst(c, self, shader_src, shader_type, name, garbage) ==
  LET c1 == CreateShader(c, shader_type, name)
      c2 == ShaderSource(c1, name, shader_src)
      c3 == CompileShader(c2, name)
      e == get_shader_err(c3, name, garbage)
      pushed == [self EXCEPT !.shaders = Append(@, name)]
  IN IF HasNul(shader_src) THEN Outcome(c1, self, Panic("NulError", <<>>), Zero32)
     ELSE IF ~e.ok
     THEN Outcome(e.c, pushed, Panic("ERROR::SHADER::COMPILATION_FAILED\n", e.err), Zero32)
     ELSE Outcome(e.c, pushed, NoPanic, Zero32)

\* ShaderBuilder::compile
compile(c, self, shader_src, shader_type, name, garbage) ==
  LET c1 == CreateShader(c, shader_type, name)
      shader == name
      c2 == ShaderSource(c1, shader, shader_src)
      c3 == CompileShader(c2, shader)
      e == get_shader_err(c3, shader, garbage)
  IN IF HasNul(shader_src)
     THEN Outcome(c1, self, Panic("NulError", <<>>), Zero32)
     ELSE IF ~e.ok
     THEN Outcome(e.c, self, Panic("ERROR::SHADER::COMPILATION_FAILED\n", e.err), Zero32)
     ELSE Outcome(e.c, [self EXCEPT !.shaders = Append(@, shader)], NoPanic, Zero32)

ReadFile(c, path) == [g |-> c.g, t |-> Append(c.t, Ev("read_to_string", path, 0, c.g))]

\* ShaderBuilder::attach_shader
attach_shader(c, self, shader_path, name, garbage) ==
  LET ext == Extension(shader_path)
      shader_type == from_ext(ext)
      c1 == ReadFile(c, shader_path)
      shader_src == FileContent(shader_path)
  IN IF ext = None
     THEN Outcome(c, self, Panic("ERROR::SHADER::FAILED_TO_READ_EXTENSION", <<>>), Zero32)
     ELSE IF ~shader_type.ok
     THEN Outcome(c, self, Panic("ERROR::SHADER::FAILED_TO_PARSE_EXTENSION\n", ext), Zero32)
     ELSE IF shader_src = NoFile
     THEN Outcome(c1, self, Panic("ERROR:SHADER:FAILED_TO_READ_FILE\n", shader_path), Zero32)
     ELSE compile(c1, self, shader_src, shader_type.ty, name, garbage)

RECURSIVE AttachAll(_, _, _)
AttachAll(c, pid, shaders) ==
  IF shaders = <<>> THEN c
  ELSE AttachAll(AttachShader(c, pid, Head(shaders)), pid, Tail(shaders))

\* a loop that stops one stage early
RECURSIVE DeleteAll_butLast(_, _)
DeleteAll_butLast(c, shaders) ==
  IF Len(shaders) <= 1 THEN c
  ELSE DeleteAll_butLast(DeleteShader(c, Head(shaders)), Tail(shaders))

RECURSIVE DeleteAll(_, _)
DeleteAll(c, shaders) ==
  IF shaders = <<>> THEN c
  ELSE DeleteAll(DeleteShader(c, Head(shaders)), Tail(shaders))

\* a link whose Shader does not carry the program handle
link_noPid(c, self, driverOK, driverLog, garbage) ==
  LET c1 == AttachAll(c, self.pid, self.shaders)
      c2 == LinkProgram(c1, self.pid, driverOK, driverLog)
      e == get_linker_err(c2, self, garbage)
      c3 == DeleteAll(e.c, self.shaders)
  IN IF ~e.ok
     THEN Outcome(e.c, self, Panic("ERROR::SHADER::COMPILATION_FAILED\n", e.err), Zero32)
     ELSE Outcome(c3, self, NoPanic, Zero32)

\* a link that deletes the stages before it looks at the link status
link_deleteFirst(c, self, driverOK, driverLog, garbage) ==
  LET c1 == AttachAll(c, self.pid, self.shaders)
      c2 == LinkProgram(c1, self.pid, driverOK, driverLog)
      c3 == DeleteAll(c2, self.shaders)
      e == get_linker_err(c3, self, garbage)
  IN IF ~e.ok
     THEN Outcome(e.c, self, Panic("ERROR::SHADER::COMPILATION_FAILED\n", e.err), Zero32)
     ELSE Outcome(e.c, self, NoPanic, self.pid)

\* ShaderBuilder::link
link(c, self, driverOK, driverLog, garbage) ==
  LET c1 == AttachAll(c, self.pid, self.shaders)
      c2 == LinkProgram(c1, self.pid, driverOK, driverLog)
      e == get_linker_err(c2, self, garbage)
      c3 == DeleteAll(e.c, self.shaders)
  IN IF ~e.ok
     THEN Outcome(e.c, self, Panic("ERROR::SHADER::COMPILATION_FAILED\n", e.err), Zero32)
     ELSE Outcome(c3, self, NoPanic, self.pid)

\* Shader::activate
activate(c, shader) == UseProgram(c, shader.pid)

\* Shader::get_uniform_location: the location of name in this program
get_uniform_location(c, shader, name) == GetUniformLocation(c, shader.pid, name)
location(c, shader, name) == UniformLocationOf(c.g, shader.pid, name)

\* Shader::set_uniform_mat4: uploads the matrix as stored, column by column
set_uniform_mat4(c, shader, name, m) ==
  UniformMatrix4fv(get_uniform_location(c, shader, name),
                   location(c, shader, name), FALSE, m)

----------------------------------------------------------------------------
(* src/src/raytracing.rs *)

\* a send that does not activate the shader it writes to
RTSettings_send_uniform_noActivate(c, self, shader, uniform_name) ==
  LET prev_pid == CurrentProgramValue(c)
      c2 == GetCurrentProgram(c)
      n1 == Dotted(uniform_name, "maxBounces")
      c3 == Uniform1ui(get_uniform_location(c2, shader, n1),
                       location(c2, shader, n1), self.max_bounces)
      n2 == Dotted(uniform_name, "raysPerFrag")
      c4 == Uniform1ui(get_uniform_location(c3, shader, n2),
                       location(c3, shader, n2), self.rays_per_frag)
      n3 == Dotted(uniform_name, "divergeStrength")
      c5 == Uniform1f(get_uniform_location(c4, shader, n3),
                      location(c4, shader, n3), self.diverge_strength)
  IN UseProgram(c5, AsU32(prev_pid))

\* RTSettings::send_uniform
RTSettings_send_uniform(c, self, shader, uniform_name) ==
  LET prev_pid == CurrentProgramValue(c)
      c1 == GetCurrentProgram(c)
      c2 == activate(c1, shader)
      n1 == Dotted(uniform_name, "maxBounces")
      c3 == Uniform1ui(get_uniform_location(c2, shader, n1),
                       location(c2, shader, n1), self.max_bounces)
      n2 == Dotted(uniform_name, "raysPerFrag")
      c4 == Uniform1ui(get_uniform_location(c3, shader, n2),
                       location(c3, shader, n2), self.rays_per_frag)
      n3 == Dotted(uniform_name, "divergeStrength")
      c5 == Uniform1f(get_uniform_location(c4, shader, n3),
                      location(c4, shader, n3), self.diverge_strength)
  IN UseProgram(c5, AsU32(prev_pid))

\* a send that uploads the focus distance as the field of view and back
RTCamera_send_uniform_swapped(c, self, shader, uniform_name) ==
  LET prev_pid == CurrentProgramValue(c)
      c1 == GetCurrentProgram(c)
      c2 == activate(c1, shader)
      n1 == Dotted(uniform_name, "screenSize")
      c3 == Uniform2f(get_uniform_location(c2, shader, n1),
                      location(c2, shader, n1),
                      self.screen_size[1], self.screen_size[2])
      n2 == Dotted(uniform_name, "fov")
      c4 == Uniform1f(get_uniform_location(c3, shader, n2),
                      location(c3, shader, n2), self.focus_distance)
      n3 == Dotted(uniform_name, "focusDistance")
      c5 == Uniform1f(get_uniform_location(c4, shader, n3),
                      location(c4, shader, n3), self.fov)
      n4 == Dotted(uniform_name, "pos")
      c6 == Uniform3f(get_uniform_location(c5, shader, n4),
                      location(c5, shader, n4),
                      self.pos[1], self.pos[2], self.pos[3])
      c7 == set_uniform_mat4(c6, shader, Dotted(uniform_name, "localToWorld"),
                             self.local_to_world)
  IN UseProgram(c7, AsU32(prev_pid))

\* RTCamera::send_uniform
RTCamera_send_uniform(c, self, shader, uniform_name) ==
  LET prev_pid == CurrentProgramValue(c)
      c1 == GetCurrentProgram(c)
      c2 == activate(c1, shader)
      n1 == Dotted(uniform_name, "screenSize")
      c3 == Uniform2f(get_uniform_location(c2, shader, n1),
                      location(c2, shader, n1),
                      self.screen_size[1], self.screen_size[2])
      n2 == Dotted(uniform_name, "fov")
      c4 == Uniform1f(get_uniform_location(c3, shader, n2),
                      location(c3, shader, n2), self.fov)
      n3 == Dotted(uniform_name, "focusDistance")
      c5 == Uniform1f(get_uniform_location(c4, shader, n3),
                      location(c4, shader, n3), self.focus_distance)
      n4 == Dotted(uniform_name, "pos")
      c6 == Uniform3f(get_uniform_location(c5, shader, n4),
                      location(c5, shader, n4),
                      self.pos[1], self.pos[2], self.pos[3])
      c7 == set_uniform_mat4(c6, shader, Dotted(uniform_name, "localToWorld"),
                             self.local_to_world)
  IN UseProgram(c7, AsU32(prev_pid))

\* Values the caller sends.  Floats stand for themselves: no call converts.
SettingsValues ==
  { [max_bounces |-> <<0, 4>>, rays_per_frag |-> <<0, 1>>, diverge_strength |-> 2],
    [max_bounces |-> Max32, rays_per_frag |-> Zero32, diverge_strength |-> 7] }

Identity4 == <<1, 0, 0, 0,  0, 1, 0, 0,  0, 0, 1, 0,  0, 0, 0, 1>>
Moved4 == <<1, 0, 0, 0,  0, 1, 0, 0,  0, 0, 1, 0,  3, 5, 8, 1>>

CameraValues ==
  { [screen_size |-> <<800, 600>>, fov |-> 60, focus_distance |-> 1,
     pos |-> <<0, 0, 0>>, local_to_world |-> Identity4],
    [screen_size |-> <<640, 480>>, fov |-> 90, focus_distance |-> 4,
     pos |-> <<3, 5, 8>>, local_to_world |-> Moved4] }

----------------------------------------------------------------------------
(* The program: a caller that builds shaders and sends uniforms.           *)

VARIABLES
  gl,          \* the OpenGL context
  builders,    \* the ShaderBuilder values, by the caller's variable
  shadersOut,  \* the Shader values link() has returned
  pc,          \* "build", then "use" once the first shader is used, or
               \* "aborted" once a panic ended the process
  panicMsg,    \* the message of that panic
  calls,       \* how many times a shader was activated or sent uniforms
  ops,         \* how many calls the caller has made
  last         \* the latest call: what was called, with what, and its GL calls

vars == <<gl, builders, shadersOut, pc, panicMsg, calls, ops, last>>

Builders == 1..MaxBuilders

Unborn == "Unborn"
Accumulating == "Accumulating"
Linked == "Linked"
Dropped == "Dropped"

Call(op, b, arg, c) ==
  [op |-> op, b |-> b, arg |-> arg, prev |-> gl.current,
   pre |-> IF b = 0 THEN <<>> ELSE builders[b].shaders, trace |-> c.t]

Enter == [g |-> gl, t |-> <<>>]

Init ==
  /\ gl = [current |-> Zero32, programs |-> <<>>, shaders |-> <<>>]
  /\ builders = [b \in Builders |->
                   [state |-> Unborn, pid |-> Zero32, shaders |-> <<>>, born |-> Zero32]]
  /\ shadersOut = {}
  /\ pc = "build"
  /\ panicMsg = NoPanic
  /\ calls = 0
  /\ ops = 0
  /\ last = [op |-> "init", b |-> 0, arg |-> 0, prev |-> Zero32, pre |-> <<>>, trace |-> <<>>]

\* a link that borrows the builder and leaves it with the caller
Moved_kept(panic) == Accumulating

\* The state of the caller's variable once link(self) has taken the builder.
Moved(panic) == IF panic = NoPanic THEN Linked ELSE Dropped

\* The effect of a builder method that returns the builder or panics.
Returned(b, o) ==
  /\ gl' = o.c.g
  /\ builders' = [builders EXCEPT ![b] =
        [state |-> IF o.panic = NoPanic THEN Accumulating ELSE Dropped,
         pid |-> o.self.pid, shaders |-> o.self.shaders, born |-> @.born]]
  /\ pc' = IF o.panic = NoPanic THEN "build" ELSE "aborted"
  /\ panicMsg' = o.panic

\* let b = ShaderBuilder::new(), the start of the chain
\* ShaderBuilder::new().attach_shader(..)...link(): one shader is built
\* after the other.
New(b) ==
  /\ pc = "build"
  /\ ops < MaxOps
  /\ builders[b].state = Unborn
  /\ \A a \in Builders : a < b => builders[a].state = Linked
  /\ \E name \in FreshProgramNames(gl) :
       LET o == ShaderBuilder_new(Enter, name)
       IN /\ gl' = o.c.g
          /\ builders' = [builders EXCEPT ![b] =
                [state |-> Accumulating, pid |-> o.self.pid,
                 shaders |-> o.self.shaders, born |-> name]]
          /\ UNCHANGED <<pc, panicMsg>>
          /\ last' = Call("new", b, name, o.c)
  /\ ops' = ops + 1
  /\ UNCHANGED <<shadersOut, calls>>

\* b = b.compile(src, ty)
Compile(b) ==
  /\ pc = "build"
  /\ ops < MaxOps
  /\ builders[b].state = Accumulating
  /\ Len(builders[b].shaders) < MaxStages
  /\ \E src \in Sources, ty \in ShaderTypes, name \in FreshShaderNames(gl),
        garbage \in GarbageBytes :
       LET o == compile(Enter, [pid |-> builders[b].pid, shaders |-> builders[b].shaders],
                        src, ty, name, garbage)
       IN /\ Returned(b, o)
          /\ last' = Call("compile", b, [src |-> src, ty |-> ty, name |-> name], o.c)
  /\ ops' = ops + 1
  /\ UNCHANGED <<shadersOut, calls>>

\* b = b.attach_shader(path)
Attach(b) ==
  /\ pc = "build"
  /\ ops < MaxOps
  /\ builders[b].state = Accumulating
  /\ Len(builders[b].shaders) < MaxStages
  /\ \E path \in Paths, name \in FreshShaderNames(gl), garbage \in GarbageBytes :
       LET o == attach_shader(Enter, [pid |-> builders[b].pid, shaders |-> builders[b].shaders],
                              path, name, garbage)
       IN /\ Returned(b, o)
          /\ last' = Call("attach_shader", b, [path |-> path, name |-> name], o.c)
  /\ ops' = ops + 1
  /\ UNCHANGED <<shadersOut, calls>>

\* let s = b.link(): b is moved into the call
Link(b) ==
  /\ pc = "build"
  /\ ops < MaxOps
  /\ builders[b].state = Accumulating
  /\ \E driverOK \in BOOLEAN, driverLog \in {ShortLog, LongLog},
        garbage \in GarbageBytes :
       LET o == link(Enter, [pid |-> builders[b].pid, shaders |-> builders[b].shaders],
                     driverOK, driverLog, garbage)
       IN /\ gl' = o.c.g
          /\ builders' = [builders EXCEPT ![b].state = Moved(o.panic)]
          /\ shadersOut' = IF o.panic = NoPanic
                           THEN shadersOut \cup {[pid |-> o.pid]} ELSE shadersOut
          /\ pc' = IF o.panic = NoPanic THEN "build" ELSE "aborted"
          /\ panicMsg' = o.panic
          /\ last' = Call("link", b, [driverOK |-> driverOK, driverLog |-> driverLog], o.c)
  /\ ops' = ops + 1
  /\ UNCHANGED calls

\* The shaders are built at startup and used afterwards.
Using ==
  /\ pc \in {"build", "use"}
  /\ calls < MaxCalls
  /\ ops < MaxOps
  /\ \A b \in Builders : builders[b].state # Accumulating

\* s.activate()
Activate ==
  /\ Using
  /\ \E s \in shadersOut :
       LET c == activate(Enter, s)
       IN /\ gl' = c.g
          /\ last' = Call("activate", 0, [shader |-> s], c)
  /\ pc' = "use"
  /\ calls' = calls + 1
  /\ ops' = ops + 1
  /\ UNCHANGED <<builders, shadersOut, panicMsg>>

\* settings.send_uniform(&s, prefix)
SendSettings ==
  /\ Using
  /\ \E s \in shadersOut, v \in SettingsValues, prefix \in Prefixes :
       LET c == RTSettings_send_uniform(Enter, v, s, prefix)
       IN /\ gl' = c.g
          /\ last' = Call("settings", 0, [shader |-> s, val |-> v, prefix |-> prefix], c)
  /\ pc' = "use"
  /\ calls' = calls + 1
  /\ ops' = ops + 1
  /\ UNCHANGED <<builders, shadersOut, panicMsg>>

\* camera.send_uniform(&s, prefix)
SendCamera ==
  /\ Using
  /\ \E s \in shadersOut, v \in CameraValues, prefix \in Prefixes :
       LET c == RTCamera_send_uniform(Enter, v, s, prefix)
       IN /\ gl' = c.g
          /\ last' = Call("camera", 0, [shader |-> s, val |-> v, prefix |-> prefix], c)
  /\ pc' = "use"
  /\ calls' = calls + 1
  /\ ops' = ops + 1
  /\ UNCHANGED <<builders, shadersOut, panicMsg>>

Next ==
  \/ \E b \in Builders : New(b)
  \/ \E b \in Builders : Compile(b)
  \/ \E b \in Builders : Attach(b)
  \/ \E b \in Builders : Link(b)
  \/ Activate
  \/ SendSettings
  \/ SendCamera

Spec == Init /\ [][Next]_vars

----------------------------------------------------------------------------
(* Properties *)

\* positions of a GL call in the trace of the latest call
Calls(call) == {i \in 1..Len(last.trace) : last.trace[i].call = call}
CallsOn(call, a) ==
  {i \in 1..Len(last.trace) : last.trace[i].call = call /\ last.trace[i].a = a}

IsSend == last.op \in {"settings", "camera"}
Aborted == pc = "aborted"

\* C1: when RTSettings::send_uniform or RTCamera::send_uniform returns, the
\* bound program is the one that was bound when it was called (or none, if
\* none was), whatever the target shader and whether or not the names resolve.
C1_BindRestored == IsSend => gl.current = last.prev

\* a send to a program other than the bound one, whose name has the top bit
\* set, with a prefix that resolves nothing
C1_Witness ==
  /\ last.op = "settings"
  /\ last.arg.prefix = PfxCamera
  /\ last.prev # Zero32
  /\ last.prev[1] >= SignHalf
  /\ last.prev # last.arg.shader.pid
  /\ gl.current = last.prev

\* C2: attach_shader on a path whose extension is neither vert nor frag, or
\* that has none, panics before anything else: no file is read, no shader
\* object is created and the stages of the builder are as they were.
C2_BadExtensionFailsFirst ==
  (last.op = "attach_shader" /\ Extension(last.arg.path) \notin {ExtVert, ExtFrag})
    => /\ Aborted
       /\ panicMsg.head \in {"ERROR::SHADER::FAILED_TO_READ_EXTENSION",
                             "ERROR::SHADER::FAILED_TO_PARSE_EXTENSION\n"}
       /\ last.trace = <<>>
       /\ last.arg.name \notin DOMAIN gl.shaders
       /\ builders[last.b].shaders = last.pre

\* a file that exists and would compile, with the extension txt
C2_Witness ==
  /\ last.op = "attach_shader"
  /\ last.arg.path = P_a_txt
  /\ FileContent(last.arg.path) = SrcFrag
  /\ Aborted

\* C3 as stated: link() on a builder with no stage panics and returns no Shader.
C3_EmptyLinkFails ==
  (last.op = "link" /\ last.pre = <<>>)
    => Aborted /\ [pid |-> builders[last.b].pid] \notin shadersOut

\* C3: link() on a builder with no stage attaches and deletes nothing, and
\* panics, returning no Shader, exactly when the driver reports the link
\* status as failure; otherwise it returns the Shader of the builder's program.
C3_EmptyLinkFollowsDriver ==
  (last.op = "link" /\ last.pre = <<>>)
    => /\ Calls("AttachShader") = {} /\ Calls("DeleteShader") = {}
       /\ Aborted <=> ~last.arg.driverOK
       /\ Aborted <=> [pid |-> builders[last.b].pid] \notin shadersOut
       /\ Aborted => panicMsg.head = "ERROR::SHADER::COMPILATION_FAILED\n"

\* an empty builder whose link the driver refused
C3_Witness ==
  /\ last.op = "link" /\ last.pre = <<>>
  /\ ~last.arg.driverOK
  /\ Aborted

\* the stage the latest compile or attach_shader handed to the driver
Submitted == last.op \in {"compile", "attach_shader"} /\ Calls("CompileShader") # {}
SubmittedLog == gl.shaders[last.arg.name].log
Appended == builders[last.b].shaders = Append(last.pre, last.arg.name)

\* C4 as stated: a stage whose compile status is failure makes compile panic
\* with a message that contains the driver's log and is never added; a stage
\* whose compile status is success is added, alone and last.
C4_CompileReportsLog ==
  Submitted =>
    IF gl.shaders[last.arg.name].compiled
    THEN ~Aborted /\ Appended /\ builders[last.b].state = Accumulating
    ELSE /\ Aborted
         /\ panicMsg.head = "ERROR::SHADER::COMPILATION_FAILED\n"
         /\ Contains(panicMsg.body, FromUtf8Lossy(SubmittedLog))
         /\ builders[last.b].shaders = last.pre

\* what fits into the log vector: LogCapacity - 1 bytes
Truncated(log) ==
  IF Len(log) < LogCapacity - 1 THEN log ELSE SubSeq(log, 1, LogCapacity - 1)

\* C4: a stage whose compile status is failure makes compile panic with a
\* message that contains the text of the first 511 bytes of the driver's log
\* (all of it when it is no longer) and is never added; a stage whose
\* compile status is success is added, alone and last, and the builder is
\* returned.
C4_CompileReportsTruncatedLog ==
  Submitted =>
    IF gl.shaders[last.arg.name].compiled
    THEN ~Aborted /\ Appended /\ builders[last.b].state = Accumulating
    ELSE /\ Aborted
         /\ panicMsg.head = "ERROR::SHADER::COMPILATION_FAILED\n"
         /\ Contains(panicMsg.body, FromUtf8Lossy(Truncated(SubmittedLog)))
         /\ builders[last.b].shaders = last.pre

\* a second stage whose log is longer than the vector
C4_Witness ==
  /\ Submitted
  /\ last.pre # <<>>
  /\ ~gl.shaders[last.arg.name].compiled
  /\ Len(SubmittedLog) > LogCapacity
  /\ Aborted

\* the stage type a path's extension stands for
TypeOfExt(ext) == IF ext = ExtVert THEN Vertex ELSE Fragment

ValidFile(path) ==
  /\ Extension(path) \in {ExtVert, ExtFrag}
  /\ FileContent(path) # NoFile
  /\ ~HasNul(FileContent(path))
  /\ DriverCompiles(FileContent(path), TypeOfExt(Extension(path)))

StageTypes(b) ==
  [i \in 1..Len(builders[b].shaders) |-> gl.shaders[builders[b].shaders[i]].ty]

\* C5: attach_shader of a valid file adds its stage without a panic; link()
\* of stages the driver links returns, without a panic, the Shader whose
\* handle is the one new() allocated; activate() binds that handle.
C5_ValidPairBuilds ==
  /\ (last.op = "attach_shader" /\ ValidFile(last.arg.path))
       => ~Aborted /\ Appended /\ builders[last.b].state = Accumulating
  /\ (last.op = "link" /\ last.arg.driverOK)
       => /\ ~Aborted
          /\ builders[last.b].state = Linked
          /\ [pid |-> builders[last.b].born] \in shadersOut
  /\ \A s \in shadersOut :
       \E b \in Builders : builders[b].state = Linked /\ s.pid = builders[b].born
  /\ last.op = "activate" => gl.current = last.arg.shader.pid

\* the second shader, built from a vertex and a fragment stage, is bound
C5_Witness ==
  /\ last.op = "activate"
  /\ builders[2].state = Linked
  /\ last.arg.shader.pid = builders[2].born
  /\ StageTypes(2) = <<Vertex, Fragment>>
  /\ gl.current = builders[2].born
  /\ last.prev # gl.current

WasLinked(b) ==
  builders[b].state # Unborn /\ [pid |-> builders[b].pid] \in shadersOut

OnBuilder(l, b) == l.op \in {"compile", "attach_shader", "link"} /\ l.b = b

\* C6: a builder starts with no stage, only compile and attach_shader add a
\* stage (one, at the end), and once link() returned its Shader nothing is
\* called on the builder and its stages stay as they are.
C6_Lifecycle ==
  [][\A b \in Builders :
       /\ builders[b].state = Unborn /\ builders'[b] # builders[b]
            => /\ last'.op = "new"
               /\ builders'[b].state = Accumulating
               /\ builders'[b].shaders = <<>>
       /\ builders'[b].shaders # builders[b].shaders
            => /\ last'.op \in {"compile", "attach_shader"} /\ last'.b = b
               /\ builders[b].state = Accumulating
               /\ Len(builders'[b].shaders) = Len(builders[b].shaders) + 1
               /\ DropLast(builders'[b].shaders, 1) = builders[b].shaders
       /\ builders'[b].state = Linked /\ builders[b].state # Linked
            => last'.op = "link" /\ last'.b = b /\ builders[b].state = Accumulating
       /\ WasLinked(b)
            => /\ builders'[b] = builders[b]
               /\ ~(OnBuilder(last', b) /\ last' # last)]_vars

\* the first builder was linked and the second one is being filled
C6_Witness ==
  /\ WasLinked(1)
  /\ builders[1].state = Linked
  /\ Len(builders[1].shaders) = 2
  /\ last.op = "attach_shader" /\ last.b = 2
  /\ Len(builders[2].shaders) = 1

AttachesOf(pid, s) ==
  {i \in Calls("AttachShader") : last.trace[i].a = pid /\ last.trace[i].b = s}

Before(I, J) == \A i \in I, j \in J : i < j

\* C7: a link() that succeeds attaches every stage exactly once, all before
\* the link step, checks the link status before any deletion and deletes
\* every stage exactly once; no stage is deleted before link() is called.
C7_LinkOrder ==
  /\ (last.op = "link" /\ ~Aborted)
       => /\ \A k \in 1..Len(last.pre) :
               /\ Cardinality(AttachesOf(builders[last.b].pid, last.pre[k])) = 1
               /\ Cardinality(CallsOn("DeleteShader", last.pre[k])) = 1
               /\ gl.shaders[last.pre[k]].deleteFlag
          /\ Cardinality(Calls("AttachShader")) = Len(last.pre)
          /\ Cardinality(Calls("DeleteShader")) = Len(last.pre)
          /\ Cardinality(Calls("LinkProgram")) = 1
          /\ Cardinality(Calls("GetProgramiv")) = 1
          /\ Before(Calls("AttachShader"), Calls("LinkProgram"))
          /\ Before(Calls("LinkProgram"), Calls("GetProgramiv"))
          /\ Before(Calls("GetProgramiv"), Calls("DeleteShader"))
          /\ gl.programs[builders[last.b].pid].attached = last.pre
  /\ last.op # "link" => Calls("DeleteShader") = {}
  /\ \A b \in Builders : builders[b].state = Accumulating =>
       \A k \in 1..Len(builders[b].shaders) :
          /\ builders[b].shaders[k] \in DOMAIN gl.shaders
          /\ ~gl.shaders[builders[b].shaders[k]].deleteFlag

\* two stages were linked
C7_Witness ==
  /\ last.op = "link" /\ ~Aborted
  /\ Len(last.pre) = 2
  /\ Cardinality(Calls("DeleteShader")) = 2

Uniforms(pid) == gl.programs[pid].uniforms

\* the program declares name with type ty, and the uniform holds val
Declares(pid, name, ty) ==
  \E i \in 1..Len(Uniforms(pid)) : Uniforms(pid)[i].name = name /\ Uniforms(pid)[i].ty = ty
Holds(pid, name, val) ==
  \A i \in 1..Len(Uniforms(pid)) : Uniforms(pid)[i].name = name => Uniforms(pid)[i].val = val
RoundTrip(field, ty, val) ==
  Declares(last.arg.shader.pid, Dotted(last.arg.prefix, field), ty)
    => Holds(last.arg.shader.pid, Dotted(last.arg.prefix, field), val)

\* C8: after a value was sent, every uniform <prefix>.<field> that the
\* target program declares with the field's type holds the field's value.
C8_RoundTrip ==
  /\ last.op = "settings" =>
       /\ RoundTrip("maxBounces", "uint", last.arg.val.max_bounces)
       /\ RoundTrip("raysPerFrag", "uint", last.arg.val.rays_per_frag)
       /\ RoundTrip("divergeStrength", "float", last.arg.val.diverge_strength)
  /\ last.op = "camera" =>
       /\ RoundTrip("screenSize", "vec2", last.arg.val.screen_size)
       /\ RoundTrip("fov", "float", last.arg.val.fov)
       /\ RoundTrip("focusDistance", "float", last.arg.val.focus_distance)
       /\ RoundTrip("pos", "vec3", last.arg.val.pos)
       /\ RoundTrip("localToWorld", "mat4", last.arg.val.local_to_world)

\* a camera with a transform that is not symmetric, sent to a program that
\* declares all five fields
C8_Witness ==
  /\ last.op = "camera"
  /\ last.arg.prefix = PfxCamera
  /\ last.arg.val.local_to_world = Moved4
  /\ Declares(last.arg.shader.pid, Dotted(PfxCamera, "fov"), "float")
  /\ Declares(last.arg.shader.pid, Dotted(PfxCamera, "localToWorld"), "mat4")
  /\ Holds(last.arg.shader.pid, Dotted(PfxCamera, "localToWorld"), Moved4)
  /\ Holds(last.arg.shader.pid, Dotted(PfxCamera, "fov"), 90)

UniformCalls ==
  {"Uniform1ui", "Uniform1f", "Uniform2f", "Uniform3f", "UniformMatrix4fv"}

\* C9: a send first reads the bound program, then activates its target,
\* then looks up and writes uniforms, all while the target is bound, and
\* last rebinds what was bound; the uniforms of every other program are
\* left as they were.
C9_WritesOnlyTarget ==
  [][(last'.op \in {"settings", "camera"}) =>
       LET t == last'.trace
           target == last'.arg.shader.pid
       IN /\ Len(t) >= 3
          /\ t[1].call = "GetIntegerv"
          /\ t[2].call = "UseProgram" /\ t[2].a = target
          /\ t[Len(t)].call = "UseProgram" /\ t[Len(t)].a = gl.current
          /\ \A i \in 3..(Len(t) - 1) :
               /\ t[i].call \in UniformCalls \cup {"GetUniformLocation"}
               /\ t[i].bound = target
               /\ t[i].call = "GetUniformLocation" => t[i].a = target
          /\ Cardinality({i \in 1..Len(t) : t[i].call \in UniformCalls})
               = IF last'.op = "settings" THEN 3 ELSE 5
          /\ \A p \in DOMAIN gl.programs :
               p # target => gl'.programs[p] = gl.programs[p]]_vars

\* a camera was sent to one program while another, which declares the same
\* uniforms, was bound
C9_Witness ==
  /\ last.op = "camera"
  /\ last.arg.prefix = PfxCamera
  /\ last.prev # Zero32
  /\ last.prev # last.arg.shader.pid
  /\ Declares(last.prev, Dotted(PfxCamera, "pos"), "vec3")
  /\ Declares(last.arg.shader.pid, Dotted(PfxCamera, "pos"), "vec3")
  /\ Holds(last.arg.shader.pid, Dotted(PfxCamera, "pos"), <<3, 5, 8>>)

Alive(s) == s \in DOMAIN gl.shaders /\ ~gl.shaders[s].deleteFlag

\* C10: stages are deleted only by a link() that succeeds: a compile that
\* panics leaves the shader object it created alive and out of the builder,
\* and a link() that panics has attached every stage and deleted none.
C10_DeleteOnlyOnSuccess ==
  /\ Calls("DeleteShader") # {} => last.op = "link" /\ ~Aborted
  /\ (last.op \in {"compile", "attach_shader"} /\ Aborted /\ Calls("CreateShader") # {})
       => /\ Alive(last.arg.name)
          /\ \A k \in 1..Len(builders[last.b].shaders) :
               builders[last.b].shaders[k] # last.arg.name
  /\ (last.op = "link" /\ Aborted)
       => /\ gl.programs[builders[last.b].pid].attached = last.pre
          /\ Cardinality(Calls("AttachShader")) = Len(last.pre)
          /\ Before(Calls("AttachShader"), Calls("GetProgramiv"))
  /\ \A b \in Builders : builders[b].state \in {Accumulating, Dropped} =>
       \A k \in 1..Len(builders[b].shaders) : Alive(builders[b].shaders[k])

\* the link of the second builder's two stages failed after the first
\* builder's stages had been deleted
C10_Witness ==
  /\ last.op = "link" /\ Aborted /\ last.b = 2
  /\ Len(last.pre) = 2
  /\ builders[1].state = Linked /\ Len(builders[1].shaders) = 1
  /\ ~Alive(builders[1].shaders[1])
  /\ Alive(last.pre[1]) /\ Alive(last.pre[2])

====
